---- MODULE Spec2Model ----
(***************************************************************************)
(* mcproxy: a TCP/UDP forwarding proxy that prepends a PROXY protocol v1   *)
(* header on TCP and multiplexes UDP clients onto per-client backend       *)
(* sockets.  This module models main.go: handleTCP (one goroutine per       *)
(* accepted connection plus its two copy goroutines) and udpForward (the   *)
(* listener loop, the reaper goroutine, the per-association forwarders).   *)
(***************************************************************************)
EXTENDS Integers, Sequences, FiniteSets, TLC

\* ---------------------------------------------------------------- bounds
NumSessions == 2   \* TCP connections accepted by main's accept loop
MaxBytes == 2      \* payload bytes the TCP peers write, all sessions together
NumClients == 2    \* distinct UDP client addresses
MaxDgrams == 2     \* datagrams the UDP listener reads
MaxSocks == 2      \* backend UDP sockets dialed successfully
MaxResp == 1       \* datagrams the backend sends back
MaxTime == 3       \* clock ticks

\* ------------------------------------------------------- configuration
Idle == 2            \* idle := cfg.IdleTimeoutSeconds, in clock ticks
SweepInterval == 1   \* time.Sleep(time.Minute), in clock ticks

Sessions == 1..NumSessions

VARIABLES
    conns,      \* the connections main's accept loop hands to handleTCP
    sess,       \* per connection: the state of its handleTCP goroutine
    activeTCP,  \* var activeTCP int64
    budget,     \* payload bytes the TCP peers may still write
    assocs,     \* assocs map[string]*assoc
    mu,         \* var mu sync.Mutex: "free" or the goroutine holding it
    activeUDP,  \* var activeUDP int64
    now,        \* the clock read by time.Now and time.Since
    lis,        \* the listener loop of udpForward: position and locals
    reaper,     \* the reaper goroutine: position and locals
    socks,      \* the backend sockets net.DialUDP returned, by number
    run,        \* per client address: its current run of closely spaced datagrams
    udpLoad     \* what the UDP peers have sent so far

tcpVars == <<conns, sess, activeTCP, budget>>
udpVars == <<assocs, mu, activeUDP, now, lis, reaper, socks, run, udpLoad>>
vars == <<conns, sess, activeTCP, budget,
          assocs, mu, activeUDP, now, lis, reaper, socks, run, udpLoad>>

\* ------------------------------------------------------------- TCP relay
Peers == {"client", "backend"}
Dirs == {"c2b", "b2c"}

\* io.Copy(backend, client) reads the client socket; io.Copy(client, backend)
\* reads the backend socket.
Src(d) == IF d = "c2b" THEN "client" ELSE "backend"
Dst(d) == IF d = "c2b" THEN "backend" ELSE "client"

\* What a peer receives: the header line, a truncated header line, or the
\* i-th payload byte the other peer wrote.
hdr == <<"hdr", 0>>
hdrPart == <<"hdrpart", 0>>
Data(i) == <<"data", i>>
DataSeq(lo, hi) == [i \in 1..(hi - lo + 1) |-> Data(lo + i - 1)]

NewSession ==
    [ pc       |-> "idle",      \* position of handleTCP
      client   |-> "open",      \* the accepted client net.Conn
      backend  |-> "none",      \* the dialed backend net.Conn
      dials    |-> 0,           \* net.Dial calls made
      hdrs     |-> 0,           \* io.WriteString(backend, hdr) calls made
      hdrErr   |-> FALSE,       \* that call returned an error
      incs     |-> 0,           \* atomic.AddInt64(&activeTCP, 1) calls made
      decs     |-> 0,           \* atomic.AddInt64(&activeTCP, -1) calls made
      wg       |-> 0,           \* sync.WaitGroup counter
      cp       |-> [d \in Dirs |-> "none"],   \* position of each copy goroutine
      buf      |-> [d \in Dirs |-> <<>>],     \* bytes io.Copy read, not yet written
      wrote    |-> [p \in Peers |-> 0],       \* bytes the peer has written
      taken    |-> [p \in Peers |-> 0],       \* bytes the proxy has read from the peer
      recv     |-> [p \in Peers |-> <<>>],    \* what the proxy has written to the peer
      wrClosed |-> [p \in Peers |-> FALSE],   \* the peer closed its sending side
      deadline |-> [p \in Peers |-> FALSE],   \* SetDeadline(time.Now()) done on the socket
      fault    |-> FALSE ]      \* a network read or write error occurred

Running == {"read", "write"}
Finished == {"copied", "done"}
Exiting == {"deferBackend", "deferClient", "deferDecr", "returned"}

\* handleTCP, line 82: the goroutine starts and increments the counter.
Start(s) ==
    /\ s \in conns
    /\ sess[s].pc = "idle"
    /\ activeTCP' = activeTCP + 1
    /\ sess' = [sess EXCEPT ![s].pc = "dial", ![s].incs = @ + 1]
    /\ UNCHANGED <<conns, budget, udpVars>>

\* Faulty variants of DialErrNext: a return that skips the deferred function,
\* and a retry of the dial.
DialErrNext_SkipDefer == "returned"
DialErrNext_Retry == "dial"

\* Where handleTCP goes when net.Dial fails: return, which runs the deferred
\* client.Close and decrement (backend.Close is not yet deferred).
DialErrNext == "deferClient"

\* line 88: the single net.Dial.
Dial(s) ==
    /\ sess[s].pc = "dial"
    /\ \/ sess' = [sess EXCEPT ![s].pc = "hdr", ![s].backend = "open",
                               ![s].dials = @ + 1]
       \/ sess' = [sess EXCEPT ![s].pc = DialErrNext, ![s].dials = @ + 1]
    /\ UNCHANGED <<conns, activeTCP, budget, udpVars>>

\* Faulty variant of HdrErrNext: the error is logged but the relay starts.
HdrErrNext_NoReturn == "spawn"

\* Where handleTCP goes when the header write fails: return, which runs
\* backend.Close, client.Close and the decrement.
HdrErrNext == "deferBackend"

\* lines 98-102: io.WriteString(backend, hdr); a failed write may have put a
\* prefix of the line on the wire.
WriteHdr(s) ==
    /\ sess[s].pc = "hdr"
    /\ \/ sess' = [sess EXCEPT ![s].pc = "spawn", ![s].hdrs = @ + 1,
                               ![s].recv["backend"] = Append(@, hdr)]
       \/ \E part \in {<<>>, <<hdrPart>>} :
            sess' = [sess EXCEPT ![s].pc = HdrErrNext, ![s].hdrs = @ + 1,
                                 ![s].hdrErr = TRUE, ![s].fault = TRUE,
                                 ![s].recv["backend"] = @ \o part]
    /\ UNCHANGED <<conns, activeTCP, budget, udpVars>>

\* lines 104-107: wg.Add(2) and the two go statements.
Spawn(s) ==
    /\ sess[s].pc = "spawn"
    /\ sess' = [sess EXCEPT ![s].pc = "wait", ![s].wg = 2,
                            ![s].cp = [d \in Dirs |-> "read"]]
    /\ UNCHANGED <<conns, activeTCP, budget, udpVars>>

\* io.Copy: src.Read returned data.  A read on a socket whose deadline has
\* passed fails even when data is waiting.
CopyRead(s, d) ==
    /\ sess[s].cp[d] = "read"
    /\ ~sess[s].deadline[Src(d)]
    /\ \E n \in 1..(sess[s].wrote[Src(d)] - sess[s].taken[Src(d)]) :
         sess' = [sess EXCEPT
                    ![s].cp[d] = "write",
                    ![s].buf[d] = [i \in 1..n |-> sess[s].taken[Src(d)] + i],
                    ![s].taken[Src(d)] = @ + n]
    /\ UNCHANGED <<conns, activeTCP, budget, udpVars>>

\* io.Copy: src.Read returned io.EOF (the peer closed its sending side and
\* everything it wrote has been read).
CopyEOF(s, d) ==
    /\ sess[s].cp[d] = "read"
    /\ ~sess[s].deadline[Src(d)]
    /\ sess[s].wrClosed[Src(d)]
    /\ sess[s].taken[Src(d)] = sess[s].wrote[Src(d)]
    /\ sess' = [sess EXCEPT ![s].cp[d] = "copied"]
    /\ UNCHANGED <<conns, activeTCP, budget, udpVars>>

\* io.Copy: src.Read failed with a timeout because the other copy goroutine
\* set the deadline of this socket.
CopyTimeout(s, d) ==
    /\ sess[s].cp[d] = "read"
    /\ sess[s].deadline[Src(d)]
    /\ sess' = [sess EXCEPT ![s].cp[d] = "copied"]
    /\ UNCHANGED <<conns, activeTCP, budget, udpVars>>

\* io.Copy: src.Read failed with a network error.
CopyReadErr(s, d) ==
    /\ sess[s].cp[d] = "read"
    /\ sess' = [sess EXCEPT ![s].cp[d] = "copied", ![s].fault = TRUE]
    /\ UNCHANGED <<conns, activeTCP, budget, udpVars>>

\* io.Copy: dst.Write wrote the whole buffer.
CopyWrite(s, d) ==
    /\ sess[s].cp[d] = "write"
    /\ ~sess[s].deadline[Dst(d)]
    /\ sess' = [sess EXCEPT
                  ![s].cp[d] = "read",
                  ![s].recv[Dst(d)] = @ \o [i \in 1..Len(sess[s].buf[d]) |->
                                              Data(sess[s].buf[d][i])],
                  ![s].buf[d] = <<>>]
    /\ UNCHANGED <<conns, activeTCP, budget, udpVars>>

\* io.Copy: dst.Write failed after writing a strict prefix of the buffer.
CopyWriteErr(s, d) ==
    /\ sess[s].cp[d] = "write"
    /\ \E n \in 0..(Len(sess[s].buf[d]) - 1) :
         sess' = [sess EXCEPT
                    ![s].cp[d] = "copied",
                    ![s].fault = TRUE,
                    ![s].recv[Dst(d)] = @ \o [i \in 1..n |-> Data(sess[s].buf[d][i])],
                    ![s].buf[d] = <<>>]
    /\ UNCHANGED <<conns, activeTCP, budget, udpVars>>

\* Faulty variant of ForcesDeadline: the SetDeadline call is missing.
ForcesDeadline_Missing == FALSE

\* Whether a copy goroutine forces the deadline after io.Copy returns.
ForcesDeadline == TRUE

\* lines 106/107 after io.Copy returned: backend.SetDeadline(time.Now()) in
\* the client->backend goroutine, client.SetDeadline(time.Now()) in the
\* other, then wg.Done().
CopyFinish(s, d) ==
    /\ sess[s].cp[d] = "copied"
    /\ sess' = [sess EXCEPT ![s].cp[d] = "done",
                            ![s].deadline[Dst(d)] = @ \/ ForcesDeadline,
                            ![s].wg = @ - 1]
    /\ UNCHANGED <<conns, activeTCP, budget, udpVars>>

\* Faulty variant of WaitReturns: wg.Add(1) for two goroutines.
WaitReturns_AddOne(s) == sess[s].wg <= 1

\* wg.Wait() returns when the counter is zero.
WaitReturns(s) == sess[s].wg = 0

\* line 108: wg.Wait(), then the function returns.
Wait(s) ==
    /\ sess[s].pc = "wait"
    /\ WaitReturns(s)
    /\ sess' = [sess EXCEPT ![s].pc = "deferBackend"]
    /\ UNCHANGED <<conns, activeTCP, budget, udpVars>>

\* line 93: defer backend.Close().
DeferBackendClose(s) ==
    /\ sess[s].pc = "deferBackend"
    /\ sess' = [sess EXCEPT ![s].pc = "deferClient", ![s].backend = "closed"]
    /\ UNCHANGED <<conns, activeTCP, budget, udpVars>>

\* line 84: client.Close() in the deferred function.
DeferClientClose(s) ==
    /\ sess[s].pc = "deferClient"
    /\ sess' = [sess EXCEPT ![s].pc = "deferDecr", ![s].client = "closed"]
    /\ UNCHANGED <<conns, activeTCP, budget, udpVars>>

\* line 85: atomic.AddInt64(&activeTCP, -1), then handleTCP has returned.
DeferDecr(s) ==
    /\ sess[s].pc = "deferDecr"
    /\ activeTCP' = activeTCP - 1
    /\ sess' = [sess EXCEPT ![s].pc = "returned", ![s].decs = @ + 1]
    /\ UNCHANGED <<conns, budget, udpVars>>

\* The proxy's socket towards a peer is connected and open.
Connected(s, p) ==
    /\ s \in conns
    /\ IF p = "client" THEN sess[s].client = "open" ELSE sess[s].backend = "open"

\* A peer (the client or the backend server) writes one more payload byte.
PeerWrite(s, p) ==
    /\ Connected(s, p)
    /\ ~sess[s].wrClosed[p]
    /\ budget > 0
    /\ budget' = budget - 1
    /\ sess' = [sess EXCEPT ![s].wrote[p] = @ + 1]
    /\ UNCHANGED <<conns, activeTCP, udpVars>>

\* A peer closes its sending side (FIN).
PeerCloseWrite(s, p) ==
    /\ Connected(s, p)
    /\ ~sess[s].wrClosed[p]
    /\ sess' = [sess EXCEPT ![s].wrClosed[p] = TRUE]
    /\ UNCHANGED <<conns, activeTCP, budget, udpVars>>

handleTCP(s) ==
    \/ Start(s)
    \/ Dial(s)
    \/ WriteHdr(s)
    \/ Spawn(s)
    \/ Wait(s)
    \/ DeferBackendClose(s)
    \/ DeferClientClose(s)
    \/ DeferDecr(s)

CopyStep(s, d) ==
    \/ CopyRead(s, d)
    \/ CopyEOF(s, d)
    \/ CopyTimeout(s, d)
    \/ CopyWrite(s, d)
    \/ CopyFinish(s, d)

CopyFault(s, d) ==
    \/ CopyReadErr(s, d)
    \/ CopyWriteErr(s, d)

PeerStep(s, p) ==
    \/ PeerWrite(s, p)
    \/ PeerCloseWrite(s, p)

TCPNext ==
    \E s \in Sessions :
        \/ handleTCP(s)
        \/ \E d \in Dirs : CopyStep(s, d) \/ CopyFault(s, d)
        \/ \E p \in Peers : PeerStep(s, p)

\* --------------------------------------------------------- UDP multiplexer
\* Client source addresses: one IP, NumClients ports.
Addrs == {<<"10.0.0.1", port>> : port \in 1..NumClients}
SockIds == 1..MaxSocks

\* Faulty variant of Key: the key also depends on the datagram's content.
Key_WithPayload(dg) == <<dg.addr[1], dg.addr[2], dg.payload>>

\* line 154: key := addr.String(), "ip:port", one string per (ip, port).
Key(dg) == <<dg.addr[1], dg.addr[2]>>

\* Faulty variants of IdleExpired: the timeout is ignored; the test is off by
\* one tick; the test is not strict.
IdleExpired_NoTimeout(v) == now - v.lastSeen > 0
IdleExpired_Late(v) == now - v.lastSeen > Idle + 1
IdleExpired_AtTimeout(v) == now - v.lastSeen >= Idle

\* line 137: time.Since(v.lastSeen) > idle.
IdleExpired(v) == now - v.lastSeen > Idle

NoDgram == [addr |-> <<"", 0>>, payload |-> 0]

\* Faulty variant of Wire: a PROXY header line is put in front of the payload.
Wire_WithHeader(dg) == <<hdr, Data(dg.payload)>>

\* line 181: the bytes of one a.backend.Write call, buf[:n] as read.
Wire(dg) == <<Data(dg.payload)>>

NewSock == [state |-> "unused",   \* the *net.UDPConn: unused, open, closed
            cliAddr |-> <<"", 0>>, \* ac.cliAddr held by its forwarding task
            fwd |-> "none",       \* position of the forwarding task
            got |-> 0,            \* the datagram the forwarding task read
            dialedFor |-> NoDgram, \* the datagram net.DialUDP was called for
            sent |-> <<>>,        \* what each Write put on the socket, in order
            relayed |-> {},       \* where pc.WriteTo sent what it read
            incs |-> 0,           \* atomic.AddInt64(&activeUDP, 1) for it
            decs |-> 0]           \* atomic.AddInt64(&activeUDP, -1) for it
NewRun == [last |-> -1,      \* time of the latest a.lastSeen = time.Now()
           n |-> 0,          \* datagrams dispatched in the run
           socks |-> {},     \* sockets the run's datagrams were written to
           dialed |-> FALSE, \* net.DialUDP was called for a later datagram of the run
           swept |-> FALSE]  \* the reaper examined the association during the run

NoAssocs == [k \in {} |-> 0]
MapPut(m, k, v) == [x \in DOMAIN m \cup {k} |-> IF x = k THEN v ELSE m[x]]
MapDelete(m, k) == [x \in DOMAIN m \ {k} |-> m[x]]
UnusedSocks == {b \in SockIds : socks[b].state = "unused"}

\* Faulty variant of MutexFree: Lock never waits.
MutexFree_Always == TRUE

\* lines 135, 156: mu.Lock() returns only when no task holds mu.
MutexFree == mu = "free"

\* The clock advances.
Tick ==
    /\ now < MaxTime
    /\ now' = now + 1
    /\ UNCHANGED <<tcpVars, assocs, mu, activeUDP, lis, reaper, socks, run, udpLoad>>

\* line 149: pc.ReadFrom returned a datagram.
LRead ==
    /\ lis.pc = "read"
    /\ udpLoad.dgrams < MaxDgrams
    /\ \E addr \in Addrs :
         LET dg == [addr |-> addr, payload |-> udpLoad.dgrams + 1] IN
         /\ lis' = [lis EXCEPT !.pc = "lock", !.dg = dg, !.key = Key(dg),
                               !.dialed = FALSE, !.readAt = now]
         /\ udpLoad' = [udpLoad EXCEPT !.dgrams = @ + 1, !.from = Append(@, addr)]
    /\ UNCHANGED <<tcpVars, assocs, mu, activeUDP, now, reaper, socks, run>>

\* lines 150-153: pc.ReadFrom failed; logged, the loop continues.
LReadErr ==
    /\ lis.pc = "read"
    /\ UNCHANGED vars

\* line 156: mu.Lock().
LLock ==
    /\ lis.pc = "lock"
    /\ MutexFree
    /\ mu' = "listener"
    /\ lis' = [lis EXCEPT !.pc = "lookup"]
    /\ UNCHANGED <<tcpVars, assocs, activeUDP, now, reaper, socks, run, udpLoad>>

\* lines 157-158: a, ok := assocs[key].
LLookup ==
    /\ lis.pc = "lookup"
    /\ lis' = [lis EXCEPT !.pc = IF lis.key \in DOMAIN assocs THEN "refresh" ELSE "dial"]
    /\ UNCHANGED <<tcpVars, assocs, mu, activeUDP, now, reaper, socks, run, udpLoad>>

\* A dial for a datagram that follows the run's latest one within the idle
\* timeout.
DialInRun(addr) == run[addr].last >= 0 /\ now - run[addr].last < Idle
NoteDial(addr) == [run EXCEPT ![addr].dialed = @ \/ DialInRun(addr)]

\* line 159: net.DialUDP succeeded.
LDial ==
    /\ lis.pc = "dial"
    /\ \E b \in UnusedSocks :
         /\ b = Cardinality(SockIds \ UnusedSocks) + 1
         /\ socks' = [socks EXCEPT ![b].state = "open", ![b].dialedFor = lis.dg]
         /\ lis' = [lis EXCEPT !.pc = "insert", !.bc = b, !.dialed = TRUE]
    /\ run' = NoteDial(lis.dg.addr)
    /\ UNCHANGED <<tcpVars, assocs, mu, activeUDP, now, reaper, udpLoad>>

\* Faulty variant of MuAfterDialErr: the error path continues without
\* mu.Unlock().
MuAfterDialErr_StillHeld == mu

\* line 161: mu.Unlock() on the dial error path.
MuAfterDialErr == "free"

\* lines 160-164: net.DialUDP failed: unlock, log, next datagram.
LDialErr ==
    /\ lis.pc = "dial"
    /\ mu' = MuAfterDialErr
    /\ lis' = [lis EXCEPT !.pc = "read", !.dg = NoDgram, !.key = <<>>, !.readAt = 0]
    /\ run' = NoteDial(lis.dg.addr)
    /\ UNCHANGED <<tcpVars, assocs, activeUDP, now, reaper, socks, udpLoad>>

\* lines 165-166: a = &assoc{...}; assocs[key] = a.
LInsert ==
    /\ lis.pc = "insert"
    /\ assocs' = MapPut(assocs, lis.key,
                        [cliAddr |-> lis.dg.addr, backend |-> lis.bc, lastSeen |-> now])
    /\ lis' = [lis EXCEPT !.pc = "incr"]
    /\ UNCHANGED <<tcpVars, mu, activeUDP, now, reaper, socks, run, udpLoad>>

\* line 167: atomic.AddInt64(&activeUDP, 1).
LIncr ==
    /\ lis.pc = "incr"
    /\ activeUDP' = activeUDP + 1
    /\ socks' = [socks EXCEPT ![lis.bc].incs = @ + 1]
    /\ lis' = [lis EXCEPT !.pc = "spawn"]
    /\ UNCHANGED <<tcpVars, assocs, mu, now, reaper, run, udpLoad>>

\* lines 169-178: go func(ac *assoc) {...}(a).
LSpawn ==
    /\ lis.pc = "spawn"
    /\ socks' = [socks EXCEPT ![lis.bc].fwd = "read",
                              ![lis.bc].cliAddr = assocs[lis.key].cliAddr]
    /\ lis' = [lis EXCEPT !.pc = "refresh"]
    /\ UNCHANGED <<tcpVars, assocs, mu, activeUDP, now, reaper, run, udpLoad>>

\* line 180: a.lastSeen = time.Now().
LRefresh ==
    /\ lis.pc = "refresh"
    /\ assocs' = [assocs EXCEPT ![lis.key].lastSeen = now]
    /\ lis' = [lis EXCEPT !.pc = "write"]
    /\ LET addr == lis.dg.addr
           r == run[addr]
       IN run' = [run EXCEPT ![addr] =
                    IF r.last >= 0 /\ now - r.last < Idle
                    THEN [r EXCEPT !.last = now, !.n = @ + 1]
                    ELSE [NewRun EXCEPT !.last = now, !.n = 1]]
    /\ UNCHANGED <<tcpVars, mu, activeUDP, now, reaper, socks, udpLoad>>

\* Faulty variant of AfterWriteErr: a failed write tears the association down.
AfterWriteErr_Teardown(m, k) == MapDelete(m, k)

\* line 181: both results of Write are discarded, the map stays as it is.
AfterWriteErr(m, k) == m

\* line 181: _, _ = a.backend.Write(buf[:n]); the result is ignored.
LWrite ==
    /\ lis.pc = "write"
    /\ LET b == assocs[lis.key].backend IN
         /\ \/ /\ socks' = [socks EXCEPT ![b].sent = Append(@, Wire(lis.dg))]
               /\ lis' = [lis EXCEPT !.pc = "unlock"]
               /\ assocs' = assocs
            \/ /\ socks' = socks
               /\ lis' = [lis EXCEPT !.pc = "unlock", !.wrErr = TRUE]
               /\ assocs' = AfterWriteErr(assocs, lis.key)
         /\ run' = [run EXCEPT ![lis.dg.addr].socks = @ \cup {b}]
    /\ UNCHANGED <<tcpVars, mu, activeUDP, now, reaper, udpLoad>>

\* line 182: mu.Unlock(), back to pc.ReadFrom.
LUnlock ==
    /\ lis.pc = "unlock"
    /\ mu' = "free"
    /\ lis' = [lis EXCEPT !.pc = "read", !.dg = NoDgram, !.key = <<>>, !.bc = 0,
                       !.wrErr = FALSE, !.readAt = 0]
    /\ UNCHANGED <<tcpVars, assocs, activeUDP, now, reaper, socks, run, udpLoad>>

\* line 134: time.Sleep(time.Minute) returns.
RWake ==
    /\ reaper.pc = "sleep"
    /\ now >= reaper.wakeAt
    /\ reaper' = [reaper EXCEPT !.pc = "lock"]
    /\ UNCHANGED <<tcpVars, assocs, mu, activeUDP, now, lis, socks, run, udpLoad>>

\* Keys of the map whose forwarding task returned on a read error of a socket
\* that nobody closed.
FwdFailed ==
    {k \in DOMAIN assocs : /\ socks[assocs[k].backend].fwd = "exited"
                           /\ socks[assocs[k].backend].state = "open"}

\* line 135: mu.Lock(); the range statement starts over the map as it is.
RLock ==
    /\ reaper.pc = "lock"
    /\ MutexFree
    /\ mu' = "reaper"
    /\ reaper' = [reaper EXCEPT !.pc = "range", !.todo = DOMAIN assocs,
                                !.snap = assocs, !.t0 = now, !.n0 = activeUDP,
                                !.dead = FwdFailed]
    /\ UNCHANGED <<tcpVars, assocs, activeUDP, now, lis, socks, run, udpLoad>>

\* lines 136-137: the next k, v of the range and the idle test.
RNext ==
    /\ reaper.pc = "range"
    /\ \E k \in reaper.todo :
         /\ reaper' = [reaper EXCEPT !.todo = @ \ {k}, !.k = k,
                                     !.age = now - assocs[k].lastSeen,
                                     !.pc = IF IdleExpired(assocs[k]) THEN "close"
                                                                     ELSE "range"]
         /\ run' = [run EXCEPT ![assocs[k].cliAddr].swept = TRUE]
    /\ UNCHANGED <<tcpVars, assocs, mu, activeUDP, now, lis, socks, udpLoad>>

\* Faulty variant of CloseSock: the socket is left open.
CloseSock_NoClose(b) == socks

\* line 138: Close on the association's *net.UDPConn.
CloseSock(b) == [socks EXCEPT ![b].state = "closed"]

\* line 138: v.backend.Close().
RClose ==
    /\ reaper.pc = "close"
    /\ socks' = CloseSock(assocs[reaper.k].backend)
    /\ reaper' = [reaper EXCEPT !.pc = "delete", !.b = assocs[reaper.k].backend]
    /\ UNCHANGED <<tcpVars, assocs, mu, activeUDP, now, lis, run, udpLoad>>

\* Faulty variant of RDelete: the entry stays in the map.
RDelete_Missing ==
    /\ reaper.pc = "delete"
    /\ reaper' = [reaper EXCEPT !.pc = "decr"]
    /\ UNCHANGED <<tcpVars, assocs, mu, activeUDP, now, lis, socks, run, udpLoad>>

\* line 139: delete(assocs, k).
RDelete ==
    /\ reaper.pc = "delete"
    /\ assocs' = MapDelete(assocs, reaper.k)
    /\ reaper' = [reaper EXCEPT !.pc = "decr"]
    /\ UNCHANGED <<tcpVars, mu, activeUDP, now, lis, socks, run, udpLoad>>

\* Faulty variant of RDecr: the decrement is missing.
RDecr_Missing ==
    /\ reaper.pc = "decr"
    /\ reaper' = [reaper EXCEPT !.pc = "range"]
    /\ UNCHANGED <<tcpVars, assocs, mu, activeUDP, now, lis, socks, run, udpLoad>>

\* line 140: atomic.AddInt64(&activeUDP, -1).
RDecr ==
    /\ reaper.pc = "decr"
    /\ activeUDP' = activeUDP - 1
    /\ socks' = [socks EXCEPT ![reaper.b].decs = @ + 1]
    /\ reaper' = [reaper EXCEPT !.pc = "range"]
    /\ UNCHANGED <<tcpVars, assocs, mu, now, lis, run, udpLoad>>

\* line 143: the range is over; mu.Unlock(), then the next time.Sleep.
RUnlock ==
    /\ reaper.pc = "range"
    /\ reaper.todo = {}
    /\ mu' = "free"
    /\ reaper' = [reaper EXCEPT !.pc = "sleep", !.wakeAt = now + SweepInterval,
                                !.k = <<>>, !.b = 0, !.snap = NoAssocs,
                                !.t0 = 0, !.n0 = 0, !.dead = {}]
    /\ UNCHANGED <<tcpVars, assocs, activeUDP, now, lis, socks, run, udpLoad>>

\* line 172: ac.backend.Read returned a datagram the backend sent.
FRead(b) ==
    /\ socks[b].fwd = "read"
    /\ socks[b].state = "open"
    /\ udpLoad.resps < MaxResp
    /\ udpLoad' = [udpLoad EXCEPT !.resps = @ + 1]
    /\ socks' = [socks EXCEPT ![b].fwd = "relay", ![b].got = udpLoad.resps + 1]
    /\ UNCHANGED <<tcpVars, assocs, mu, activeUDP, now, lis, reaper, run>>

\* Faulty variant of FReadErr: the task removes its own association and
\* decrements the counter before it returns.
FReadErr_SelfRemove(b) ==
    /\ socks[b].fwd = "read"
    /\ socks[b].state = "open"
    /\ socks' = [socks EXCEPT ![b].fwd = "exited"]
    /\ assocs' = [k \in {x \in DOMAIN assocs : assocs[x].backend # b} |-> assocs[k]]
    /\ activeUDP' = activeUDP - 1
    /\ UNCHANGED <<tcpVars, mu, now, lis, reaper, run, udpLoad>>

\* lines 173-175: ac.backend.Read failed on the open socket (the backend is
\* unreachable); the task returns.
FReadErr(b) ==
    /\ socks[b].fwd = "read"
    /\ socks[b].state = "open"
    /\ socks' = [socks EXCEPT ![b].fwd = "exited"]
    /\ UNCHANGED <<tcpVars, assocs, mu, activeUDP, now, lis, reaper, run, udpLoad>>

\* lines 173-175: ac.backend.Read failed because the reaper closed the socket;
\* the task returns.
FReadClosed(b) ==
    /\ socks[b].fwd = "read"
    /\ socks[b].state = "closed"
    /\ socks' = [socks EXCEPT ![b].fwd = "exited"]
    /\ UNCHANGED <<tcpVars, assocs, mu, activeUDP, now, lis, reaper, run, udpLoad>>

\* Faulty variant of RelayTarget: the task reads the listener loop's variable
\* a instead of its own parameter ac.
RelayTarget_LoopVar(b) ==
    IF lis.key \in DOMAIN assocs THEN assocs[lis.key].cliAddr ELSE socks[b].cliAddr

\* lines 169, 176: ac.cliAddr, ac being the association passed to the task.
RelayTarget(b) == socks[b].cliAddr

\* line 176: pc.WriteTo(b[:m], ac.cliAddr).
FWriteTo(b) ==
    /\ socks[b].fwd = "relay"
    /\ socks' = [socks EXCEPT ![b].fwd = "read", ![b].got = 0,
                              ![b].relayed = @ \cup {<<socks[b].got, RelayTarget(b)>>}]
    /\ UNCHANGED <<tcpVars, assocs, mu, activeUDP, now, lis, reaper, run, udpLoad>>

Listener ==
    \/ LRead
    \/ LReadErr
    \/ LLock
    \/ LLookup
    \/ LDial
    \/ LDialErr
    \/ LInsert
    \/ LIncr
    \/ LSpawn
    \/ LRefresh
    \/ LWrite
    \/ LUnlock

Reaper ==
    \/ RWake
    \/ RLock
    \/ RNext
    \/ RClose
    \/ RDelete
    \/ RDecr
    \/ RUnlock

Forwarder(b) ==
    \/ FRead(b)
    \/ FReadErr(b)
    \/ FReadClosed(b)
    \/ FWriteTo(b)

\* The listener loop and the reaper: everything that reads or writes the map,
\* the timestamps and activeUDP.
UDPNext ==
    \/ Tick
    \/ Listener
    \/ Reaper

\* The same with the per-association forwarding tasks running.
UDPFwdNext ==
    \/ Tick
    \/ Listener
    \/ Reaper
    \/ \E b \in SockIds : Forwarder(b)

\* udpForward before the first datagram: an empty map, the reaper asleep.
NoAssocsYet ==
    /\ assocs = NoAssocs
    /\ mu = "free"
    /\ activeUDP = 0
    /\ now = 0
    /\ lis = [pc |-> "read", dg |-> NoDgram, key |-> <<>>, bc |-> 0, dialed |-> FALSE,
              wrErr |-> FALSE, readAt |-> 0]
    /\ reaper = [pc |-> "sleep", wakeAt |-> SweepInterval, todo |-> {}, k |-> <<>>,
                 b |-> 0, snap |-> NoAssocs, t0 |-> 0, n0 |-> 0, dead |-> {},
                 age |-> -1]
    /\ socks = [b \in SockIds |-> NewSock]
    /\ run = [a \in Addrs |-> NewRun]
    /\ udpLoad = [dgrams |-> 0, resps |-> 0, from |-> <<>>]

\* Either up to NumSessions concurrent connections that carry no payload, or
\* one connection whose peers write up to MaxBytes bytes.
InitTCP ==
    /\ \E n \in 1..NumSessions :
         /\ conns = 1..n
         /\ budget = IF n = 1 THEN MaxBytes ELSE 0
    /\ sess = [s \in Sessions |-> NewSession]
    /\ activeTCP = 0
    /\ NoAssocsYet

\* One connection whose peers write up to MaxBytes bytes.
InitRelay ==
    /\ conns = {1}
    /\ budget = MaxBytes
    /\ sess = [s \in Sessions |-> NewSession]
    /\ activeTCP = 0
    /\ NoAssocsYet

\* The UDP multiplexer alone: no TCP connection arrives.
InitUDP ==
    /\ conns = {}
    /\ budget = 0
    /\ sess = [s \in Sessions |-> NewSession]
    /\ activeTCP = 0
    /\ NoAssocsYet

SpecTCP == InitTCP /\ [][TCPNext]_vars

SpecUDP == InitUDP /\ [][UDPNext]_vars

SpecUDPFwd == InitUDP /\ [][UDPFwdNext]_vars

\* The Go scheduler runs every runnable goroutine, and a socket call that can
\* complete does complete; network faults and the peers' own actions are not
\* forced.
FairTCP ==
    \A s \in Sessions :
        /\ WF_vars(handleTCP(s))
        /\ \A d \in Dirs : WF_vars(CopyStep(s, d))

FairSpecTCP == InitRelay /\ [][TCPNext]_vars /\ FairTCP

\* The scheduler runs every forwarding task: a Read on a socket that was closed
\* returns its error and a WriteTo on the listening socket completes. That the
\* backend answers or fails, that clients send and that time passes is not
\* forced.
FairUDPFwd ==
    \A b \in SockIds :
        /\ WF_vars(FReadClosed(b))
        /\ WF_vars(FWriteTo(b))

FairSpecUDPFwd == InitUDP /\ [][UDPFwdNext]_vars /\ FairUDPFwd

\* ------------------------------------------------------------ TCP claims
Other(d) == IF d = "c2b" THEN "b2c" ELSE "c2b"
IsData(x) == x[1] = "data"
HdrCount(q) == Cardinality({i \in 1..Len(q) : q[i] = hdr})
DialFailed(s) == sess[s].dials > 0 /\ sess[s].backend = "none"

\* C1: in every session the header is written to the backend at most once,
\* exactly once as soon as the write has succeeded, and ahead of every
\* payload byte; after a failed header write no payload byte is read from or
\* written to either peer.
C1_HeaderFirst ==
    \A s \in Sessions :
        LET toBackend == sess[s].recv["backend"] IN
        /\ sess[s].hdrs <= 1
        /\ HdrCount(toBackend) <= 1
        /\ \A i \in 1..Len(toBackend) :
             IsData(toBackend[i]) => i > 1 /\ toBackend[1] = hdr
        /\ (\E d \in Dirs : sess[s].cp[d] # "none") =>
             sess[s].hdrs = 1 /\ HdrCount(toBackend) = 1
        /\ sess[s].hdrErr =>
             /\ \A i \in 1..Len(toBackend) : ~IsData(toBackend[i])
             /\ sess[s].recv["client"] = <<>>
             /\ \A p \in Peers : sess[s].taken[p] = 0
             /\ \A d \in Dirs : sess[s].cp[d] = "none"

\* Witness of C1: a session has relayed client payload behind the header.
C1_Witness ==
    \E s \in Sessions :
        /\ Len(sess[s].recv["backend"]) >= 2
        /\ sess[s].recv["backend"][1] = hdr
        /\ IsData(sess[s].recv["backend"][2])

\* C2: when a session has ended without a network fault and both peers have
\* closed their sending side, the backend has received the header followed by
\* exactly the bytes the client wrote, and the client exactly the bytes the
\* backend wrote, in order.
C2_Fidelity ==
    \A s \in Sessions :
        ( /\ sess[s].pc = "returned"
          /\ ~sess[s].fault
          /\ sess[s].hdrs = 1
          /\ \A p \in Peers : sess[s].wrClosed[p] )
        => /\ sess[s].recv["backend"] = <<hdr>> \o DataSeq(1, sess[s].wrote["client"])
           /\ sess[s].recv["client"] = DataSeq(1, sess[s].wrote["backend"])

\* C3: activeTCP equals the number of handleTCP invocations that have started
\* and not returned; each invocation increments once and decrements once; the
\* counter is never negative and is 0 when every session has ended.
C3_ActiveTCP ==
    /\ activeTCP = Cardinality({s \in Sessions : sess[s].pc \notin {"idle", "returned"}})
    /\ activeTCP >= 0
    /\ \A s \in Sessions :
         /\ sess[s].incs = (IF sess[s].pc = "idle" THEN 0 ELSE 1)
         /\ sess[s].decs = (IF sess[s].pc = "returned" THEN 1 ELSE 0)
    /\ (\A s \in conns : sess[s].pc = "returned") => activeTCP = 0

\* Witness of C3: several sessions ran and all have returned.
C3_Witness ==
    /\ Cardinality(conns) >= 2
    /\ \A s \in conns : sess[s].pc = "returned"
    /\ activeTCP = 0

\* C4: a returned handleTCP has closed the client socket and decremented the
\* counter, whichever way it left; after a failed dial there was one dial
\* attempt, no header write and no copy goroutine.
C4_ExitPaths ==
    \A s \in Sessions :
        /\ sess[s].pc = "returned" =>
             /\ sess[s].client = "closed"
             /\ sess[s].decs = 1
             /\ sess[s].backend \in {"none", "closed"}
        /\ DialFailed(s) =>
             /\ sess[s].dials = 1
             /\ sess[s].hdrs = 0
             /\ sess[s].recv["backend"] = <<>>
             /\ \A d \in Dirs : sess[s].cp[d] = "none"
             /\ sess[s].pc \in {"deferClient", "deferDecr", "returned"}

\* Witness of C4: a session whose dial failed has returned.
C4_Witness ==
    \E s \in Sessions : DialFailed(s) /\ sess[s].pc = "returned"

\* C9: while a copy goroutine of a session has not finished, handleTCP is
\* still in wg.Wait: both sockets are open and the counter has not been
\* decremented; a session that started its copies leaves only when both are
\* done.
C9_EndsAfterBothCopies ==
    \A s \in Sessions :
        /\ (\E d \in Dirs : sess[s].cp[d] \in Running \cup {"copied"}) =>
             /\ sess[s].pc = "wait"
             /\ sess[s].client = "open"
             /\ sess[s].backend = "open"
             /\ sess[s].decs = 0
        /\ (sess[s].pc \in Exiting /\ sess[s].hdrs = 1 /\ ~sess[s].hdrErr) =>
             \A d \in Dirs : sess[s].cp[d] = "done"

\* Witness of C9: one copy is done, the other still running, the session open.
C9_Witness ==
    \E s \in Sessions : \E d \in Dirs :
        /\ sess[s].cp[d] = "done"
        /\ sess[s].cp[Other(d)] \in Running
        /\ sess[s].pc = "wait"

C5_OneAssocPerClient ==
    \A k1 \in DOMAIN assocs : \A k2 \in DOMAIN assocs :
        ( \/ assocs[k1].cliAddr = assocs[k2].cliAddr
          \/ assocs[k1].backend = assocs[k2].backend ) => k1 = k2

\* Witness of C5: two client addresses have an association at the same time.
C5_Witness == Cardinality(DOMAIN assocs) >= 2

\* C6: within a run of datagrams of one client address whose consecutive
\* dispatch times are less than the idle timeout apart, the backend is not
\* dialed again after the run's first datagram and every datagram is written
\* to one and the same backend socket, wherever the reaper sweeps.
C6_StableAssociation ==
    \A a \in Addrs :
        /\ ~run[a].dialed
        /\ Cardinality(run[a].socks) <= 1

\* Witness of C6: the second datagram of a run is about to be written after
\* the reaper examined the association during the run.
C6_Witness ==
    /\ lis.pc = "write"
    /\ run[lis.dg.addr].n >= 2
    /\ run[lis.dg.addr].swept
    /\ ~lis.dialed

\* C7: when a sweep has gone through the map, every association that was idle
\* for longer than the timeout when the sweep took the lock is out of the
\* map, its backend socket is closed, and activeUDP went down by one for
\* each association removed.
C7_IdleEviction ==
    (reaper.pc = "range" /\ reaper.todo = {}) =>
        /\ \A k \in DOMAIN reaper.snap :
             reaper.t0 - reaper.snap[k].lastSeen > Idle =>
                /\ k \notin DOMAIN assocs
                /\ socks[reaper.snap[k].backend].state = "closed"
                /\ socks[reaper.snap[k].backend].decs = 1
        /\ activeUDP = reaper.n0 - Cardinality(DOMAIN reaper.snap \ DOMAIN assocs)

\* Witness of C7: a sweep has ended that found an association idle for longer
\* than the timeout.
C7_Witness ==
    /\ reaper.pc = "range"
    /\ reaper.todo = {}
    /\ \E k \in DOMAIN reaper.snap : reaper.t0 - reaper.snap[k].lastSeen > Idle

\* C8: whenever the map lock is free, activeUDP is the number of associations
\* in the map, every socket that was inserted was counted once and every
\* evicted one discounted once; the counter is never negative.
C8_ActiveUDP ==
    /\ activeUDP >= 0
    /\ \A b \in SockIds : socks[b].incs <= 1 /\ socks[b].decs <= socks[b].incs
    /\ mu = "free" =>
         /\ activeUDP = Cardinality(DOMAIN assocs)
         /\ \A b \in SockIds :
              /\ socks[b].incs = (IF socks[b].state = "unused" THEN 0 ELSE 1)
              /\ socks[b].decs = (IF socks[b].state = "closed" THEN 1 ELSE 0)

\* Witness of C8: every association created has been evicted and the counter
\* is back to 0.
C8_Witness ==
    /\ mu = "free"
    /\ \E b \in SockIds : socks[b].state = "closed"
    /\ DOMAIN assocs = {}
    /\ activeUDP = 0

\* The datagram number of one backend write, and the client it was read from.
WriteNo(w) == w[1][2]
ReadFrom(p) == udpLoad.from[p]

\* C11: what an association's backend socket receives is, write by write, the
\* payload alone of one datagram read from the association's client (no header,
\* nothing else), the datagrams appear in the order the listener loop read
\* them, and no datagram is written twice or to two sockets.
C11_InOrderWrites ==
    \A b \in SockIds :
        \A i \in 1..Len(socks[b].sent) :
            LET w == socks[b].sent[i] IN
            /\ Len(w) = 1
            /\ w[1][1] = "data"
            /\ WriteNo(w) \in 1..udpLoad.dgrams
            /\ ReadFrom(WriteNo(w)) = socks[b].dialedFor.addr
            /\ i > 1 => WriteNo(socks[b].sent[i - 1]) < WriteNo(w)
            /\ \A c \in SockIds \ {b} :
                 \A j \in 1..Len(socks[c].sent) : socks[c].sent[j] # w

\* Two datagrams of one client were written to its association's socket.
C11_Witness ==
    \E b \in SockIds : Len(socks[b].sent) >= 2

\* C12: whatever a forwarding task relays goes to the client address its
\* association was created for, the address all datagrams written to that
\* backend socket came from, whatever other associations exist or existed.
C12_RelayToOwnClient ==
    \A b \in SockIds :
        \A r \in socks[b].relayed :
            /\ r[2] = socks[b].dialedFor.addr
            /\ \A i \in 1..Len(socks[b].sent) :
                 ReadFrom(WriteNo(socks[b].sent[i])) = r[2]

\* An evicted association had relayed a response, and an association of
\* another client is in the map.
C12_Witness ==
    \E b \in SockIds, c \in SockIds :
        /\ socks[b].state = "closed"
        /\ socks[b].relayed # {}
        /\ socks[c].state = "open"
        /\ socks[c].dialedFor.addr # socks[b].dialedFor.addr
        /\ \E k \in DOMAIN assocs : assocs[k].backend = c

\* C13: an entry leaves the map and activeUDP goes down only in a step of the
\* reaper under its lock; a step of a running forwarding task, its return on a
\* read error included, changes neither the map, nor a timestamp, nor
\* activeUDP.
C13_OnlyReaperRemoves ==
    [][/\ (\/ \E k \in DOMAIN assocs : k \notin DOMAIN assocs'
           \/ activeUDP' < activeUDP)
          => /\ mu = "reaper"
             /\ reaper.pc \in {"delete", "decr"}
             /\ \A b \in SockIds : socks'[b].fwd = socks[b].fwd
       /\ (\E b \in SockIds : socks[b].fwd # "none" /\ socks'[b].fwd # socks[b].fwd)
          => /\ assocs' = assocs
             /\ activeUDP' = activeUDP]_vars

\* A forwarding task returned on a backend read error; its association is
\* still in the map and still counted.
C13_Witness ==
    /\ FwdFailed # {}
    /\ activeUDP = Cardinality(DOMAIN assocs)

\* C14: when a sweep ends, no association whose forwarding task had failed
\* before the sweep began is left in the map.
C14_ClearedByNextSweep ==
    (reaper.pc = "range" /\ reaper.todo = {})
        => reaper.dead \cap DOMAIN assocs = {}

\* C15: a failed write to the backend socket changes neither the map nor
\* activeUDP: the association is still there with its socket open and a
\* timestamp taken after the datagram was read, and the listener loop's next
\* step is the unlock that takes it back to reading.
C15_WriteErrorKeepsAssoc ==
    [][/\ (lis.pc = "write" /\ lis'.wrErr)
          => /\ assocs' = assocs
             /\ activeUDP' = activeUDP
             /\ lis.key \in DOMAIN assocs'
             /\ assocs'[lis.key].lastSeen >= lis.readAt
             /\ socks'[assocs'[lis.key].backend].state = "open"
             /\ lis'.pc = "unlock"
       /\ (lis.wrErr /\ lis' # lis)
          => /\ lis'.pc = "read"
             /\ mu' = "free"
             /\ assocs' = assocs
             /\ activeUDP' = activeUDP
             /\ socks' = socks]_vars

\* The write of the datagram that created an association failed, and the
\* listener loop is writing the client's next datagram to the same socket.
C15_Witness ==
    /\ lis.pc = "write"
    /\ ~lis.dialed
    /\ LET b == assocs[lis.key].backend IN
         /\ socks[b].sent = <<>>
         /\ socks[b].dialedFor.payload < lis.dg.payload
         /\ run[lis.dg.addr].socks = {b}

C17_MapAccessUnderLock ==
    /\ lis.pc \in {"lookup", "dial", "insert", "incr", "spawn", "refresh", "write", "unlock"}
          => mu = "listener"
    /\ reaper.pc \in {"range", "close", "delete", "decr"} => mu = "reaper"
    /\ ~ /\ lis.pc \in {"lookup", "insert", "refresh", "write"}
         /\ reaper.pc \in {"range", "close", "delete"}

\* The reaper sweeps a map that holds the association of a datagram the
\* listener loop has read and is waiting to dispatch.
C17_Witness ==
    /\ reaper.pc = "range"
    /\ lis.pc = "lock"
    /\ lis.key \in DOMAIN assocs

\* C18: an entry of the map has a closed backend socket only inside the
\* reaper's locked sweep, between its Close and its delete of that very entry;
\* the socket the listener loop writes a datagram to is open.
C18_MappedSocketsOpen ==
    /\ \A k \in DOMAIN assocs :
         \/ socks[assocs[k].backend].state = "open"
         \/ mu = "reaper" /\ reaper.pc = "delete" /\ reaper.k = k
    /\ lis.pc = "write" => socks[assocs[lis.key].backend].state = "open"

\* The reaper has evicted an association and the listener loop writes a
\* datagram to the socket of an association in the map.
C18_Witness ==
    /\ lis.pc = "write"
    /\ \E b \in SockIds : socks[b].state = "closed" /\ socks[b].decs = 1

\* C20: the reaper evicts the entry it examines exactly when the time since
\* its timestamp is greater than the idle timeout, and keeps it otherwise; the
\* listener loop dials only for a key that is not in the map, and a datagram
\* for a key in the map goes to the open socket dialed for an earlier datagram
\* of the same client, however old the timestamp.
C20_StrictIdleTest ==
    /\ reaper.pc \in {"close", "delete", "decr"} => reaper.age > Idle
    /\ (reaper.pc = "range" /\ reaper.k # <<>>)
          => (reaper.age > Idle <=> reaper.k \notin DOMAIN assocs)
    /\ lis.pc = "dial" => lis.key \notin DOMAIN assocs
    /\ (lis.pc \in {"refresh", "write"} /\ ~lis.dialed)
          => LET b == assocs[lis.key].backend IN
             /\ socks[b].state = "open"
             /\ socks[b].dialedFor.addr = lis.dg.addr
             /\ socks[b].dialedFor.payload < lis.dg.payload

\* The last sweep found the only association idle for exactly the timeout and
\* kept it; a datagram of its client arrived later than the timeout and is
\* dispatched to the same association.
C20_Witness ==
    /\ reaper.pc = "sleep"
    /\ reaper.age = Idle
    /\ lis.pc = "refresh"
    /\ ~lis.dialed
    /\ Cardinality(DOMAIN assocs) = 1
    /\ run[lis.dg.addr].swept
    /\ now - assocs[lis.key].lastSeen > Idle

\* C19: once the reaper has evicted an association, its forwarding task
\* eventually returns; and every association in the map has a backend socket of
\* its own that no evicted association used, dialed for its client, with (once
\* the listener loop has started it) a forwarding task of its own that relays
\* to that client.
C19_EvictedTaskTerminates ==
    /\ \A b \in SockIds : (socks[b].decs = 1) ~> (socks[b].fwd = "exited")
    /\ [](\A k \in DOMAIN assocs :
            LET b == assocs[k].backend IN
            /\ socks[b].decs = 0
            /\ socks[b].dialedFor.addr = assocs[k].cliAddr
            /\ \A j \in DOMAIN assocs \ {k} : assocs[j].backend # b
            /\ (lis.pc \in {"incr", "spawn"} /\ lis.key = k)
                 \/ (socks[b].fwd # "none" /\ socks[b].cliAddr = assocs[k].cliAddr))

\* The forwarding task of an evicted association has returned, and the same
\* client has a new association with another socket and a running task.
C19_Witness ==
    \E b \in SockIds, c \in SockIds :
        /\ b # c
        /\ socks[b].decs = 1
        /\ socks[b].fwd = "exited"
        /\ socks[c].dialedFor.addr = socks[b].dialedFor.addr
        /\ socks[c].fwd = "read"
        /\ \E k \in DOMAIN assocs : assocs[k].backend = c
====
